---- MODULE Spec2Model ----
(***************************************************************************)
(* A model of pysteps/extrapolation/interface.py: the registry of          *)
(* extrapolation methods, get_method, eulerian_persistence and _do_nothing, *)
(* together with the semi-Lagrangian extrapolator the registry imports.    *)
(*                                                                         *)
(* Python values are tagged records ([type |-> ...]); a Python str is a    *)
(* sequence of one-character strings, so that str.lower() is a conversion  *)
(* that can be got wrong.                                                  *)
(***************************************************************************)
EXTENDS Integers, Sequences, FiniteSets, TLC

VARIABLES
    registry,   \* the module-level dict _extrapolation_methods
    callers,    \* one record per concurrent caller of get_method
    heap,       \* the buffers of the arrays of a program that calls eulerian_persistence
    inputs,     \* that program's field, step count and keyword arguments
    calls,      \* its calls of eulerian_persistence so far, with what each returned
    write,      \* its write into one entry of one returned sequence, if any
    sl          \* one run of the semi-Lagrangian extrapolator

vars == <<registry, callers, heap, inputs, calls, write, sl>>

(***************************************************************************)
(* Bounds of the model.                                                    *)
(***************************************************************************)
NumCallers == 2

MaxDim == 2

MaxSteps == 2

MaxCalls == 2

Callers == 1..NumCallers

(***************************************************************************)
(* Python str and str.lower().                                             *)
(***************************************************************************)
UpperLetters ==
    << "A", "B", "C", "D", "E", "F", "G", "H", "I", "J", "K", "L", "M",
       "N", "O", "P", "Q", "R", "S", "T", "U", "V", "W", "X", "Y", "Z" >>

LowerLetters ==
    << "a", "b", "c", "d", "e", "f", "g", "h", "i", "j", "k", "l", "m",
       "n", "o", "p", "q", "r", "s", "t", "u", "v", "w", "x", "y", "z" >>

LetterIndex(table, c) == CHOOSE i \in 1..Len(table) : table[i] = c

IsUpper(c) == \E i \in 1..Len(UpperLetters) : UpperLetters[i] = c

IsLower(c) == \E i \in 1..Len(LowerLetters) : LowerLetters[i] = c

\* One character of str.lower(): an upper-case letter maps to its lower-case
\* letter, every other character to itself.
LowerChar(c) ==
    IF IsUpper(c) THEN LowerLetters[LetterIndex(UpperLetters, c)] ELSE c

UpperChar(c) ==
    IF IsLower(c) THEN UpperLetters[LetterIndex(LowerLetters, c)] ELSE c

\* Faulty variant of StrLower: only the first character is lower-cased
\* (str.capitalize-like handling of the initial alone).
StrLowerFirstOnly(s) ==
    [i \in 1..Len(s) |-> IF i = 1 THEN LowerChar(s[i]) ELSE s[i]]

\* str.lower() on a sequence of characters.
StrLower(s) == [i \in 1..Len(s) |-> LowerChar(s[i])]

(***************************************************************************)
(* Python values.                                                          *)
(***************************************************************************)
PyStr(s) == [type |-> "str", val |-> s]

PyNone == [type |-> "NoneType", val |-> << >>]

PyInt(digits) == [type |-> "int", val |-> digits]

PyList(items) == [type |-> "list", val |-> items]

PyFunction(name) == [type |-> "function", val |-> name]

IsInstanceStr(v) == v.type = "str"

\* list (like dict and set) defines no __hash__: it cannot be a dict key.
Hashable(v) == v.type # "list"

(***************************************************************************)
(* The registry: a dict, kept as its items in insertion order.             *)
(***************************************************************************)
EulerianKey == PyStr(<< "e", "u", "l", "e", "r", "i", "a", "n" >>)

SemilagrangianKey ==
    PyStr(<< "s", "e", "m", "i", "l", "a", "g", "r", "a", "n", "g", "i", "a", "n" >>)

eulerian_persistence == PyFunction("eulerian_persistence")

semilagrangian_extrapolate == PyFunction("semilagrangian.extrapolate")

do_nothing == PyFunction("_do_nothing")

\* dict.__setitem__: replaces the value of an existing key, else appends.
DictSet(d, k, v) ==
    IF \E i \in 1..Len(d) : d[i].key = k
    THEN [i \in 1..Len(d) |-> IF d[i].key = k THEN [key |-> k, value |-> v] ELSE d[i]]
    ELSE Append(d, [key |-> k, value |-> v])

DictKeys(d) == [i \in 1..Len(d) |-> d[i].key]

DictHas(d, k) == \E i \in 1..Len(d) : d[i].key = k

DictValue(d, k) == d[CHOOSE i \in 1..Len(d) : d[i].key = k].value

\* _extrapolation_methods as the module body leaves it.
extrapolation_methods ==
    DictSet(DictSet(DictSet(<< >>,
        EulerianKey, eulerian_persistence),
        SemilagrangianKey, semilagrangian_extrapolate),
        PyNone, do_nothing)

(***************************************************************************)
(* Outcomes of a call: a returned value or a raised exception.             *)
(***************************************************************************)
Returned(v) == [exc |-> "none", val |-> v]

Raised(e, v) == [exc |-> e, val |-> v]

\* The message of get_method's ValueError: the name it formats and the
\* list of the registry's keys.
UnknownMethodMessage(name, keys) ==
    [type |-> "message", val |-> << >>, name |-> name, options |-> keys]

NoMessage == [type |-> "message", val |-> << >>, name |-> PyNone, options |-> << >>]

(***************************************************************************)
(* get_method, in the two steps of its body.                               *)
(***************************************************************************)
\* Lines 66-67: a str is lower-cased, anything else is left alone.
NormaliseName(name) ==
    IF IsInstanceStr(name) THEN PyStr(StrLower(name.val)) ELSE name

\* Faulty variant of LookupOutcome: the message omits the list of keys.
LookupOutcomeNoOptions(d, name) ==
    IF ~Hashable(name) THEN Raised("TypeError", NoMessage)
    ELSE IF DictHas(d, name) THEN Returned(DictValue(d, name))
    ELSE Raised("ValueError", UnknownMethodMessage(name, << >>))

\* Lines 69-74: the subscription either returns the value, raises KeyError
\* (turned into ValueError), or raises TypeError for an unhashable key,
\* which the except clause does not catch.
LookupOutcome(d, name) ==
    IF ~Hashable(name) THEN Raised("TypeError", NoMessage)
    ELSE IF DictHas(d, name) THEN Returned(DictValue(d, name))
    ELSE Raised("ValueError", UnknownMethodMessage(name, DictKeys(d)))

\* Faulty variant of RegistryAfterLookup: a lookup that caches the key it
\* was asked for (dict.setdefault instead of dict.__getitem__).
RegistryAfterLookupCaching(d, name) ==
    IF Hashable(name) /\ ~DictHas(d, name) THEN DictSet(d, name, do_nothing) ELSE d

\* d[name] reads the dict and leaves it as it was.
RegistryAfterLookup(d, name) == d

(***************************************************************************)
(* numpy arrays.  The heap is a sequence of buffers, each a flat sequence  *)
(* of numbers; an ndarray is a view of one buffer (offset and strides, in  *)
(* elements).  NaN is a reserved number outside the range of the data.     *)
(***************************************************************************)
NaN == -1000000

RECURSIVE Prod(_)
Prod(s) == IF s = << >> THEN 1 ELSE Head(s) * Prod(Tail(s))

Suffix(s, k) == SubSeq(s, k, Len(s))

\* Strides of a C-contiguous array of the given shape.
CStrides(shape) == [k \in 1..Len(shape) |-> Prod(Suffix(shape, k + 1))]

\* The multi-index (0-based) of the j-th element (0-based) in row-major order.
Unravel(shape, j) ==
    [k \in 1..Len(shape) |-> (j \div Prod(Suffix(shape, k + 1))) % shape[k]]

RECURSIVE Dot(_, _)
Dot(a, b) == IF a = << >> THEN 0 ELSE Head(a) * Head(b) + Dot(Tail(a), Tail(b))

NdArray(buf, shape, strides, off) ==
    [type |-> "ndarray", buf |-> buf, shape |-> shape, strides |-> strides, off |-> off]

\* Position (1-based) in its buffer of the element of a at multi-index idx.
Position(a, idx) == a.off + Dot(idx, a.strides) + 1

Elem(h, a, idx) == h[a.buf][Position(a, idx)]

\* The elements of a in row-major order.
ArrayData(h, a) ==
    [j \in 1..Prod(a.shape) |-> Elem(h, a, Unravel(a.shape, j - 1))]

\* What an array holds, whichever buffer holds it.
ArrayValue(h, a) == [type |-> "ndarray", shape |-> a.shape, data |-> ArrayData(h, a)]

\* a[i]: the view of entry i along the first axis.
Entry(a, i) ==
    NdArray(a.buf, Tail(a.shape), Tail(a.strides), a.off + i * a.strides[1])

\* a[idx] = x
SetElem(h, a, idx, x) == [h EXCEPT ![a.buf][Position(a, idx)] = x]

\* The result of an operation on the heap: the heap after it and its outcome.
Step(h, out) == [heap |-> h, out |-> out]

\* precip[np.newaxis, :, :]: a view with a new leading axis of length 1;
\* IndexError when precip has fewer than two axes.
NewAxisView(a) == NdArray(a.buf, << 1 >> \o a.shape, << 0 >> \o a.strides, a.off)

\* Faulty variant of NpRepeat: a broadcast view of the input's own buffer
\* (stride 0 along the new axis) in place of a copy.
NpRepeatAsView(h, a, repeats) ==
    IF repeats < 0 THEN Step(h, Raised("ValueError", NoMessage))
    ELSE Step(h, Returned(NdArray(a.buf,
                    << a.shape[1] * repeats >> \o Tail(a.shape),
                    << 0 >> \o Tail(a.strides), a.off)))

\* np.repeat(a, repeats, axis=0): a new C-contiguous array in a new buffer,
\* each entry of a repeated `repeats` times; ValueError for a negative count.
NpRepeat(h, a, repeats) ==
    IF repeats < 0 THEN Step(h, Raised("ValueError", NoMessage))
    ELSE LET shape == << a.shape[1] * repeats >> \o Tail(a.shape)
             data == [j \in 1..Prod(shape) |->
                        LET idx == Unravel(shape, j - 1)
                        IN Elem(h, a, << idx[1] \div repeats >> \o Tail(idx))]
         IN Step(Append(h, data),
                 Returned(NdArray(Len(h) + 1, shape, CStrides(shape), 0)))

\* Faulty variant of NpZeros: np.ones.
NpOnes(h, shape) ==
    Step(Append(h, [j \in 1..Prod(shape) |-> 1]),
         Returned(NdArray(Len(h) + 1, shape, CStrides(shape), 0)))

\* np.zeros(shape): a new array of zeros in a new buffer.
NpZeros(h, shape) ==
    Step(Append(h, [j \in 1..Prod(shape) |-> 0]),
         Returned(NdArray(Len(h) + 1, shape, CStrides(shape), 0)))

PyTuple(items) == [type |-> "tuple", items |-> items]

(***************************************************************************)
(* Keyword arguments: a set of <<name, value>> pairs, one per name.        *)
(* Values are numbers; True is 1 and False is 0, as in Python.             *)
(***************************************************************************)
KwNames(kw) == {p[1] : p \in kw}

\* kwargs.get(name, default)
KwGet(kw, name, default) ==
    IF name \in KwNames(kw) THEN (CHOOSE p \in kw : p[1] = name)[2] ELSE default

Truthy(x) == x # 0

(***************************************************************************)
(* eulerian_persistence and _do_nothing.                                   *)
(***************************************************************************)
\* Faulty variant of EulerianPersistence: the velocity is validated against
\* the field before use, as an advecting method would.
EulerianPersistenceCheckingVelocity(h, precip, velocity, num_timesteps, kwargs) ==
    IF velocity.type # "ndarray" THEN Step(h, Raised("AttributeError", NoMessage))
    ELSE IF velocity.shape # << 2 >> \o precip.shape
    THEN Step(h, Raised("ValueError", NoMessage))
    ELSE LET rep == NpRepeat(h, NewAxisView(precip), num_timesteps)
         IN IF rep.out.exc # "none" \/ ~Truthy(KwGet(kwargs, "return_displacement", 0))
            THEN rep
            ELSE LET zer == NpZeros(rep.heap, << 2 >> \o rep.out.val.shape)
                 IN Step(zer.heap, Returned(PyTuple(<< rep.out.val, zer.out.val >>)))

\* Lines 23-35.  `del velocity` unbinds the local name and nothing else.
EulerianPersistence(h, precip, velocity, num_timesteps, kwargs) ==
    LET return_displacement == KwGet(kwargs, "return_displacement", 0)
    IN IF Len(precip.shape) < 2 THEN Step(h, Raised("IndexError", NoMessage))
       ELSE LET rep == NpRepeat(h, NewAxisView(precip), num_timesteps)
            IN IF rep.out.exc # "none" THEN rep
               ELSE IF ~Truthy(return_displacement) THEN rep
               ELSE LET zer == NpZeros(rep.heap, << 2 >> \o rep.out.val.shape)
                    IN Step(zer.heap,
                            Returned(PyTuple(<< rep.out.val, zer.out.val >>)))

\* Faulty variant of DoNothing: the field is handed back.
DoNothingReturningField(h, precip, velocity, num_timesteps, kwargs) ==
    Step(h, Returned(precip))

\* Lines 38-40.
DoNothing(h, precip, velocity, num_timesteps, kwargs) == Step(h, Returned(PyNone))

(***************************************************************************)
(* The semi-Lagrangian extrapolator, semilagrangian.extrapolate.           *)
(*                                                                         *)
(* Coordinates are fixed-point numbers, Scale units to a grid cell; a      *)
(* velocity is a displacement per time step in the same units.  Field      *)
(* values are multiples of ValueUnit = Scale * Scale, so that a bilinear   *)
(* average with weights in units of 1/Scale per axis is exact.             *)
(***************************************************************************)
MaxSubSteps == 2

RECURSIVE Gcd(_, _)
Gcd(a, b) == IF b = 0 THEN a ELSE Gcd(b, a % b)

RECURSIVE LcmUpTo(_)
LcmUpTo(n) == IF n <= 1 THEN 1 ELSE (n * LcmUpTo(n - 1)) \div Gcd(n, LcmUpTo(n - 1))

\* Half a cell: divisible by every sub-step count in use.
Half == LcmUpTo(MaxSubSteps)

Scale == 2 * Half

ValueUnit == Scale * Scale

Rows(f) == f.shape[Len(f.shape) - 1]

Cols(f) == f.shape[Len(f.shape)]

Clamp(x, lo, hi) == IF x < lo THEN lo ELSE IF x > hi THEN hi ELSE x

\* The coordinate pair <<y, x>> clamped to the grid of f.
ClampToGrid(f, pos) ==
    << Clamp(pos[1], 0, (Rows(f) - 1) * Scale), Clamp(pos[2], 0, (Cols(f) - 1) * Scale) >>

OutsideGrid(f, pos) == ClampToGrid(f, pos) # pos

\* The cells around a coordinate inside the grid and their weights, in
\* units of 1/Scale per axis; a cell of weight zero is not consulted.
Neighbours(pos) ==
    LET r0 == pos[1] \div Scale
        fr == pos[1] % Scale
        c0 == pos[2] \div Scale
        fc == pos[2] % Scale
    IN { n \in { [r |-> r0,     c |-> c0,     w |-> (Scale - fr) * (Scale - fc)],
                 [r |-> r0,     c |-> c0 + 1, w |-> (Scale - fr) * fc],
                 [r |-> r0 + 1, c |-> c0,     w |-> fr * (Scale - fc)],
                 [r |-> r0 + 1, c |-> c0 + 1, w |-> fr * fc] } : n.w > 0 }

\* A grid of rows x cols numbers, and its cell (r, c) (0-based).
Grid(rows, cols, data) == [rows |-> rows, cols |-> cols, data |-> data]

GridAt(g, r, c) == g.data[r * g.cols + c + 1]

FieldGrid(f) == Grid(Rows(f), Cols(f), f.data)

\* Component comp (0: x, 1: y) of a velocity.
ComponentGrid(v, comp) ==
    Grid(Rows(v), Cols(v),
         SubSeq(v.data, comp * Rows(v) * Cols(v) + 1, (comp + 1) * Rows(v) * Cols(v)))

RECURSIVE WeightedSum(_, _)
WeightedSum(g, ns) ==
    IF ns = {} THEN 0
    ELSE LET n == CHOOSE n \in ns : TRUE
         IN n.w * GridAt(g, n.r, n.c) + WeightedSum(g, ns \ {n})

\* Faulty variant of Bilinear: all four cells are consulted, also those of
\* weight zero beyond the last row or column, which count as missing.
BilinearConsultingAll(g, pos) ==
    IF pos[1] \div Scale + 1 > g.rows - 1 \/ pos[2] \div Scale + 1 > g.cols - 1 THEN NaN
    ELSE IF \E n \in Neighbours(pos) : GridAt(g, n.r, n.c) = NaN THEN NaN
    ELSE WeightedSum(g, Neighbours(pos)) \div ValueUnit

\* Bilinear interpolation of a grid at a coordinate inside it: the weighted
\* average of the surrounding cells; NaN if one of them is NaN.
Bilinear(g, pos) ==
    IF \E n \in Neighbours(pos) : GridAt(g, n.r, n.c) = NaN THEN NaN
    ELSE WeightedSum(g, Neighbours(pos)) \div ValueUnit

\* The closest integer cell of a coordinate: floor(x + 1/2).
RoundToCell(x) == (2 * x + Scale) \div (2 * Scale)

Nearest(g, pos) == GridAt(g, RoundToCell(pos[1]), RoundToCell(pos[2]))

\* The field at a coordinate inside the grid, by the selected order.
Interpolate(f, pos, order) ==
    IF order = "nearest" THEN Nearest(FieldGrid(f), pos) ELSE Bilinear(FieldGrid(f), pos)

\* Steps 3 and 4: a source coordinate outside the grid yields outval, or
\* is clamped to the grid when extrapolation outside it is not allowed.
Resample(f, pos, order, allow, outval) ==
    IF OutsideGrid(f, pos)
    THEN IF Truthy(allow) THEN outval ELSE Interpolate(f, ClampToGrid(f, pos), order)
    ELSE Interpolate(f, pos, order)

\* The velocity <<vy, vx>> at a coordinate: bilinear, and always clamped.
SampleVelocity(v, pos) ==
    << Bilinear(ComponentGrid(v, 1), ClampToGrid(v, pos)),
       Bilinear(ComponentGrid(v, 0), ClampToGrid(v, pos)) >>

\* Faulty variant of Advance: the trajectory itself is clamped to the grid.
AdvanceClamped(v, pos, sub_steps) ==
    LET vel == SampleVelocity(v, pos)
    IN ClampToGrid(v, << pos[1] - vel[1] \div sub_steps, pos[2] - vel[2] \div sub_steps >>)

\* Step 2: one backward sub-step of a trajectory.
Advance(v, pos, sub_steps) ==
    LET vel == SampleVelocity(v, pos)
    IN << pos[1] - vel[1] \div sub_steps, pos[2] - vel[2] \div sub_steps >>

\* The coordinate of the j-th cell (1-based, row-major) of a field.
CellCoordinate(f, j) == << ((j - 1) \div Cols(f)) * Scale, ((j - 1) % Cols(f)) * Scale >>

InterpolationOrders == { "nearest", "bilinear" }

\* The recognised options, with their defaults.
SLOptions(kwargs) ==
    [sub_steps |-> KwGet(kwargs, "sub_steps", 1),
     order     |-> IF KwGet(kwargs, "interpolation_order", 1) = 1 THEN "bilinear"
                   ELSE IF KwGet(kwargs, "interpolation_order", 1) = 0 THEN "nearest"
                   ELSE "unknown",
     allow     |-> KwGet(kwargs, "allow_extrapolation_outside_grid", 1),
     return_displacement |-> KwGet(kwargs, "return_displacement", 0)]

\* The validation that precedes any computation.
SLValidation(f, v, num_timesteps, opts) ==
    IF v.type # "ndarray" \/ v.shape # << 2 >> \o f.shape THEN "ShapeMismatchError"
    ELSE IF num_timesteps < 1 \/ opts.sub_steps < 1 THEN "InvalidArgumentError"
    ELSE IF opts.order \notin InterpolationOrders THEN "InvalidOptionError"
    ELSE "none"

\* The state of one run: the inputs, each cell's source coordinate, the
\* time steps and sub-steps done, and the fields and displacements so far.
SLEnter(f, v, num_timesteps, outval, kwargs) ==
    [pc |-> "validate", precip |-> f, velocity |-> v, num_timesteps |-> num_timesteps,
     outval |-> outval, opts |-> SLOptions(kwargs),
     src |-> [j \in 1..Prod(f.shape) |-> CellCoordinate(f, j)],
     t |-> 0, k |-> 0, out |-> << >>, disp |-> << >>, exc |-> "none"]

SLValidate(s) ==
    LET e == SLValidation(s.precip, s.velocity, s.num_timesteps, s.opts)
    IN IF e = "none" THEN [s EXCEPT !.pc = "substep"]
       ELSE [s EXCEPT !.pc = "raised", !.exc = e]

SLSubStep(s) ==
    [s EXCEPT !.src = [j \in DOMAIN s.src |-> Advance(s.velocity, s.src[j], s.opts.sub_steps)],
              !.k = s.k + 1,
              !.pc = IF s.k + 1 = s.opts.sub_steps THEN "resample" ELSE "substep"]

\* Steps 3 to 5: the original field resampled at the source coordinates.
SLResample(s) ==
    [s EXCEPT !.out = Append(s.out,
                  [j \in DOMAIN s.src |->
                      Resample(s.precip, s.src[j], s.opts.order, s.opts.allow, s.outval)]),
              !.disp = Append(s.disp,
                  [j \in DOMAIN s.src |->
                      << CellCoordinate(s.precip, j)[1] - s.src[j][1],
                         CellCoordinate(s.precip, j)[2] - s.src[j][2] >>]),
              !.t = s.t + 1,
              !.k = 0,
              !.pc = IF s.t + 1 = s.num_timesteps THEN "returned" ELSE "substep"]

SLStep(s) ==
    CASE s.pc = "validate" -> SLValidate(s)
      [] s.pc = "substep"  -> SLSubStep(s)
      [] s.pc = "resample" -> SLResample(s)
      [] OTHER             -> s

RECURSIVE SLRun(_)
SLRun(s) == IF s.pc \in { "returned", "raised" } THEN s ELSE SLRun(SLStep(s))

RECURSIVE Concat(_)
Concat(ss) == IF ss = << >> THEN << >> ELSE Head(ss) \o Concat(Tail(ss))

\* extrapolate(precip, velocity, num_timesteps, outval, **kwargs) as one call:
\* the extrapolated fields as a new array of shape (num_timesteps, m, n).
SemiLagrangianExtrapolate(h, precip, velocity, num_timesteps, outval, kwargs) ==
    LET s == SLRun(SLEnter(ArrayValue(h, precip), velocity, num_timesteps, outval, kwargs))
        shape == << num_timesteps >> \o precip.shape
        dshape == << num_timesteps, 2 >> \o precip.shape
        ddata == Concat([t \in 1..Len(s.disp) |->
                    [j \in DOMAIN s.disp[t] |-> s.disp[t][j][2]]
                    \o [j \in DOMAIN s.disp[t] |-> s.disp[t][j][1]]])
        fields == NdArray(Len(h) + 1, shape, CStrides(shape), 0)
    IN IF s.pc = "raised" THEN Step(h, Raised(s.exc, NoMessage))
       ELSE IF ~Truthy(s.opts.return_displacement)
       THEN Step(Append(h, Concat(s.out)), Returned(fields))
       ELSE Step(Append(Append(h, Concat(s.out)), ddata),
                 Returned(PyTuple(<< fields,
                                     NdArray(Len(h) + 2, dshape, CStrides(dshape), 0) >>)))

(***************************************************************************)
(* Calling a function: Python's binding of arguments to parameters.        *)
(* A call carries positional arguments and keyword arguments.              *)
(***************************************************************************)
CallArgs(pos, kw) == [pos |-> pos, kw |-> kw]

FunctionSignature(params, defaults) == [params |-> params, defaults |-> defaults]

\* def eulerian_persistence(precip, velocity, num_timesteps, **kwargs)
EulerianSignature == FunctionSignature(<< "precip", "velocity", "num_timesteps" >>, {})

\* def _do_nothing(precip, velocity, num_timesteps, **kwargs)
DoNothingSignature == FunctionSignature(<< "precip", "velocity", "num_timesteps" >>, {})

\* extrapolate(precip, velocity, num_timesteps, outval=np.nan, **keywords)
InterfaceSignature ==
    FunctionSignature(<< "precip", "velocity", "num_timesteps", "outval" >>, { "outval" })

Signature(fn) ==
    CASE fn = eulerian_persistence       -> EulerianSignature
      [] fn = do_nothing                 -> DoNothingSignature
      [] fn = semilagrangian_extrapolate -> InterfaceSignature

ParamNames(sig) == { sig.params[i] : i \in 1..Len(sig.params) }

\* Whether a call of a function with **kwargs fails to bind: too many
\* positional arguments, a parameter given twice, or a parameter missing.
BindFails(sig, args) ==
    \/ Len(args.pos) > Len(sig.params)
    \/ \E i \in 1..Len(sig.params) : i <= Len(args.pos) /\ sig.params[i] \in KwNames(args.kw)
    \/ \E i \in 1..Len(sig.params) :
          /\ i > Len(args.pos)
          /\ sig.params[i] \notin KwNames(args.kw)
          /\ sig.params[i] \notin sig.defaults

\* The keyword arguments that name no parameter: what **kwargs receives.
ExtraKw(sig, args) == { p \in args.kw : p[1] \notin ParamNames(sig) }

\* fn(*args.pos, **args.kw).  The first three arguments are positional.
Apply(fn, h, args) ==
    LET sig == Signature(fn)
        kwargs == ExtraKw(sig, args)
    IN IF BindFails(sig, args) THEN Step(h, Raised("TypeError", NoMessage))
       ELSE CASE fn = eulerian_persistence ->
                   EulerianPersistence(h, args.pos[1], args.pos[2], args.pos[3], kwargs)
              [] fn = do_nothing ->
                   DoNothing(h, args.pos[1], args.pos[2], args.pos[3], kwargs)
              [] fn = semilagrangian_extrapolate ->
                   SemiLagrangianExtrapolate(h, args.pos[1], args.pos[2], args.pos[3],
                       IF Len(args.pos) >= 4 THEN args.pos[4]
                       ELSE KwGet(args.kw, "outval", NaN), kwargs)

\* What a returned value holds, whichever buffers hold it.
ValueOf(h, v) ==
    CASE v.type = "ndarray" -> ArrayValue(h, v)
      [] v.type = "tuple"   ->
           PyTuple([i \in 1..Len(v.items) |-> ArrayValue(h, v.items[i])])
      [] OTHER              -> v

OutcomeValue(h, out) == [exc |-> out.exc, val |-> ValueOf(h, out.val)]

(***************************************************************************)
(* Inputs.                                                                 *)
(***************************************************************************)
Shapes == { << m, n >> : m \in 1..MaxDim, n \in 1..MaxDim }

ArrayOf(shape, data) == [type |-> "ndarray", shape |-> shape, data |-> data]

\* A field whose cells all differ, and one with a missing (NaN) last cell.
Ramp(shape) == ArrayOf(shape, [j \in 1..Prod(shape) |-> j * ValueUnit])

RampWithNaN(shape) ==
    ArrayOf(shape, [j \in 1..Prod(shape) |-> IF j = Prod(shape) THEN NaN ELSE j * ValueUnit])

\* A velocity of the given field shape, the same in every cell.
UniformVelocity(shape, vx, vy) ==
    ArrayOf(<< 2 >> \o shape,
            [j \in 1..2 * Prod(shape) |-> IF j <= Prod(shape) THEN vx ELSE vy])

\* A velocity whose x-component grows by half a cell per row and column.
ShearVelocity(shape) ==
    ArrayOf(<< 2 >> \o shape,
            [j \in 1..2 * Prod(shape) |->
                IF j <= Prod(shape)
                THEN Half * (((j - 1) \div shape[2]) + ((j - 1) % shape[2]))
                ELSE 0])

\* A velocity whose grids have one row more than the field.
MismatchedVelocity(shape) == UniformVelocity(<< shape[1] + 1, shape[2] >>, 0, 0)

(***************************************************************************)
(* Callers of get_method.  A caller passes a name, get_method lower-cases  *)
(* it and looks it up; the caller may then call the function it got.       *)
(***************************************************************************)
Pending == [exc |-> "pending", val |-> PyNone]

NoArgs == CallArgs(<< >>, {})

Idle == [pc |-> "idle", arg |-> PyNone, name |-> PyNone, ret |-> Pending,
         args |-> NoArgs, result |-> Pending]

NoInputs == [precip |-> PyNone, value |-> PyNone, num_timesteps |-> 0, kwargs |-> {}]

NoWrite == [call |-> 0, entry |-> 0, idx |-> << >>, x |-> 0]

SLIdle == [pc |-> "idle"]

\* Every way of writing a lower-case word with some letters in upper case.
Casings(w) ==
    { [i \in 1..Len(w) |-> IF up[i] THEN UpperChar(w[i]) ELSE w[i]] :
        up \in [1..Len(w) -> BOOLEAN] }

UnknownNames ==
    { PyStr(<< "N", "o", "w", "c", "a", "s", "t" >>),
      PyStr(<< "n", "o", "n", "e" >>),
      PyStr(<< "e", "u", "l", "e", "r", "i", "a", "n", " " >>),
      PyStr(<< >>),
      PyInt(<< "3" >>),
      PyList(<< >>) }

\* The names the concurrent callers ask for.
RequestNames ==
    { EulerianKey, SemilagrangianKey, PyNone,
      PyStr(<< "E", "u", "l", "e", "r", "i", "a", "n" >>),
      PyStr(<< "S", "E", "M", "I", "L", "A", "G", "R", "A", "N", "G", "I", "A", "N" >>),
      PyStr(<< "N", "o", "w", "c", "a", "s", "t" >>),
      PyList(<< >>) }

\* Every casing of the two registered names, None, and unknown names.
AllNames ==
    { PyStr(s) : s \in Casings(EulerianKey.val) \cup Casings(SemilagrangianKey.val) }
        \cup { PyNone } \cup UnknownNames

\* The buffers of a caller that holds one field, and the field.
CallerHeap(f) == << f.data >>

CallerPrecip(f) == NdArray(1, f.shape, CStrides(f.shape), 0)

KeywordSets ==
    { {}, { << "return_displacement", 1 >> }, { << "outval", 0 >> },
      { << "return_displacement", 1 >>, << "outval", 0 >> } }

\* The calls of the concurrent callers: one field, with and without a
\* positional outval, with and without return_displacement.
FewCalls ==
    { [field |-> Ramp(<< 1, 2 >>),
       args  |-> CallArgs(<< CallerPrecip(Ramp(<< 1, 2 >>)), UniformVelocity(<< 1, 2 >>, 0, 0), 1 >> \o extra, kw)] :
        extra \in { << >>, << 0 >> },
        kw \in { {}, { << "return_displacement", 1 >> } } }

\* No velocity, a zero one, or one of half a cell per step along x.
CallVelocity(kind, shape) ==
    CASE kind = "none" -> PyNone
      [] kind = "zero" -> UniformVelocity(shape, 0, 0)
      [] kind = "half" -> UniformVelocity(shape, Half, 0)

\* The calls of a single caller.
ManyCalls ==
    { [field |-> Ramp(shape),
       args  |-> CallArgs(<< CallerPrecip(Ramp(shape)), CallVelocity(v, shape), n >> \o extra, kw)] :
        shape \in Shapes,
        v \in { "none", "zero", "half" },
        n \in 0..MaxSteps,
        extra \in { << >>, << 0 >> },
        kw \in KeywordSets }

OthersIdle ==
    /\ heap = << >>
    /\ inputs = NoInputs
    /\ calls = << >>
    /\ write = NoWrite
    /\ sl = SLIdle

Init ==
    /\ registry = extrapolation_methods
    /\ callers = [t \in Callers |-> Idle]
    /\ OthersIdle

\* get_method(name) is called.
Request(t, names) ==
    /\ callers[t].pc = "idle"
    /\ \E n \in names :
          callers' = [callers EXCEPT ![t] = [Idle EXCEPT !.pc = "entered", !.arg = n, !.name = n]]
    /\ UNCHANGED <<registry, heap, inputs, calls, write, sl>>

\* Lines 66-67.
Normalise(t) ==
    /\ callers[t].pc = "entered"
    /\ callers' = [callers EXCEPT ![t].name = NormaliseName(callers[t].name),
                                  ![t].pc = "normalised"]
    /\ UNCHANGED <<registry, heap, inputs, calls, write, sl>>

\* Lines 69-74.
Lookup(t) ==
    /\ callers[t].pc = "normalised"
    /\ LET out == LookupOutcome(registry, callers[t].name)
       IN callers' = [callers EXCEPT ![t].ret = out,
                                     ![t].pc = IF out.exc = "none" THEN "returned" ELSE "raised"]
    /\ registry' = RegistryAfterLookup(registry, callers[t].name)
    /\ UNCHANGED <<heap, inputs, calls, write, sl>>

\* The caller calls the function get_method returned.
Invoke(t, callset) ==
    /\ callers[t].pc = "returned"
    /\ \E c \in callset :
          LET res == Apply(callers[t].ret.val, CallerHeap(c.field), c.args)
          IN callers' = [callers EXCEPT ![t].args = c.args,
                                        ![t].result = OutcomeValue(res.heap, res.out),
                                        ![t].pc = "called"]
    /\ UNCHANGED <<registry, heap, inputs, calls, write, sl>>

\* The caller is done with the function, or with the exception.
Forget(t) ==
    /\ callers[t].pc \in { "returned", "raised", "called" }
    /\ callers' = [callers EXCEPT ![t] = Idle]
    /\ UNCHANGED <<registry, heap, inputs, calls, write, sl>>

Next ==
    \E t \in Callers :
        \/ Request(t, RequestNames)
        \/ Normalise(t)
        \/ Lookup(t)
        \/ Invoke(t, FewCalls)
        \/ Forget(t)

\* Concurrent callers of get_method.
Spec == Init /\ [][Next]_vars

NextCasing ==
    \/ Request(1, AllNames)
    \/ Normalise(1)
    \/ Lookup(1)
    \/ Forget(1)

\* One caller, asking for every casing of the registered names.
SpecCasing == Init /\ [][NextCasing]_vars

NextSingle ==
    \/ Request(1, RequestNames)
    \/ Normalise(1)
    \/ Lookup(1)
    \/ Invoke(1, ManyCalls)
    \/ Forget(1)

\* One caller, calling what it got in many ways.
SpecSingle == Init /\ [][NextSingle]_vars

(***************************************************************************)
(* A program that calls eulerian_persistence on one field, several times   *)
(* and with several velocities, and then writes into what it got.          *)
(***************************************************************************)
\* The field as a C-contiguous array of each shape, as a transposed view of
\* its buffer (the largest shape), and a field of one axis only.
FieldViews ==
    { NdArray(1, shape, CStrides(shape), 0) : shape \in Shapes }
        \cup { NdArray(1, << MaxDim, MaxDim >>, << 1, MaxDim >>, 0) }
        \cup { NdArray(1, << MaxDim >>, << 1 >>, 0) }

EulerKeywordSets ==
    { {}, { << "return_displacement", 0 >> }, { << "return_displacement", 1 >> } }

\* The velocities a call may pass for a field of the given shape: a matching
\* one, one of another shape, and None.
Velocities(shape) ==
    IF Len(shape) < 2 THEN { PyNone, UniformVelocity(<< 1, 1 >>, 0, 0) }
    ELSE { PyNone, UniformVelocity(shape, Scale, Half), MismatchedVelocity(shape) }

\* What the program writes: a number no field holds.
WrittenValues == { 7 }

InitEuler ==
    /\ registry = extrapolation_methods
    /\ callers = [t \in Callers |-> Idle]
    /\ sl = SLIdle
    /\ \E a \in FieldViews, n \in -1..MaxSteps, kw \in EulerKeywordSets :
          /\ heap = << [j \in 1..Prod(a.shape) |-> j * ValueUnit] >>
          /\ inputs = [precip |-> a,
                       value |-> ArrayValue(<< [j \in 1..Prod(a.shape) |-> j * ValueUnit] >>, a),
                       num_timesteps |-> n, kwargs |-> kw]
    /\ calls = << >>
    /\ write = NoWrite

\* eulerian_persistence(precip, v, num_timesteps, **kwargs)
EulerCall ==
    /\ Len(calls) < MaxCalls
    /\ \E v \in Velocities(inputs.precip.shape) :
          LET res == EulerianPersistence(heap, inputs.precip, v, inputs.num_timesteps,
                                         inputs.kwargs)
          IN /\ heap' = res.heap
             /\ calls' = Append(calls, [velocity |-> v, out |-> res.out,
                                        value |-> OutcomeValue(res.heap, res.out)])
    /\ UNCHANGED <<registry, callers, inputs, write, sl>>

\* The sequence of fields a call returned (alone, or first of a pair).
Extrapolated(call) ==
    IF call.out.val.type = "tuple" THEN call.out.val.items[1] ELSE call.out.val

Indices(shape) == { Unravel(shape, j - 1) : j \in 1..Prod(shape) }

\* R[i][idx] = x, for R the sequence some earlier call returned.
WriteOutput ==
    /\ write = NoWrite
    /\ \E k \in 1..Len(calls) :
          /\ calls[k].out.exc = "none"
          /\ \E i \in 0..(Extrapolated(calls[k]).shape[1] - 1) :
                \E idx \in Indices(Tail(Extrapolated(calls[k]).shape)) :
                   \E x \in WrittenValues :
                      /\ heap' = SetElem(heap, Entry(Extrapolated(calls[k]), i), idx, x)
                      /\ write' = [call |-> k, entry |-> i, idx |-> idx, x |-> x]
    /\ UNCHANGED <<registry, callers, inputs, calls, sl>>

NextEuler == EulerCall \/ WriteOutput

SpecEuler == InitEuler /\ [][NextEuler]_vars

(***************************************************************************)
(* One run of the semi-Lagrangian extrapolator, step by step.              *)
(***************************************************************************)
Speeds == { 0, Half, -Half, MaxDim * Scale, -(MaxDim * Scale) }

SLVelocities(shape) ==
    { UniformVelocity(shape, vx, vy) : vx \in Speeds, vy \in { 0, Half, -(MaxDim * Scale) } }
        \cup { ShearVelocity(shape) }

SLFields == { Ramp(shape) : shape \in Shapes } \cup { RampWithNaN(<< MaxDim, MaxDim >>) }

SLKeywordSets ==
    { { << "sub_steps", n >>, << "interpolation_order", o >>,
        << "allow_extrapolation_outside_grid", a >> } :
        n \in 1..MaxSubSteps, o \in { 0, 1 }, a \in { 0, 1 } }

\* Calls that validation rejects.
SLRejectedCalls ==
    { SLEnter(Ramp(<< 1, 1 >>), c.v, c.n, NaN, c.kw) :
        c \in { [v |-> MismatchedVelocity(<< 1, 1 >>), n |-> 1, kw |-> {}],
                [v |-> PyNone, n |-> 1, kw |-> {}],
                [v |-> UniformVelocity(<< 1, 1 >>, 0, 0), n |-> 0, kw |-> {}],
                [v |-> UniformVelocity(<< 1, 1 >>, 0, 0), n |-> 1, kw |-> { << "sub_steps", 0 >> }],
                [v |-> UniformVelocity(<< 1, 1 >>, 0, 0), n |-> 1,
                 kw |-> { << "interpolation_order", 3 >> }] } }

InitSL ==
    /\ registry = extrapolation_methods
    /\ callers = [t \in Callers |-> Idle]
    /\ heap = << >>
    /\ inputs = NoInputs
    /\ calls = << >>
    /\ write = NoWrite
    /\ \/ \E f \in SLFields, n \in 1..MaxSteps, outval \in { NaN, -ValueUnit },
            kw \in SLKeywordSets :
             \E v \in SLVelocities(f.shape) : sl = SLEnter(f, v, n, outval, kw)
       \/ sl \in SLRejectedCalls

SLValidateStep ==
    /\ sl.pc = "validate"
    /\ sl' = SLValidate(sl)
    /\ UNCHANGED <<registry, callers, heap, inputs, calls, write>>

SLSubStepStep ==
    /\ sl.pc = "substep"
    /\ sl' = SLSubStep(sl)
    /\ UNCHANGED <<registry, callers, heap, inputs, calls, write>>

SLResampleStep ==
    /\ sl.pc = "resample"
    /\ sl' = SLResample(sl)
    /\ UNCHANGED <<registry, callers, heap, inputs, calls, write>>

NextSL == SLValidateStep \/ SLSubStepStep \/ SLResampleStep

SpecSL == InitSL /\ [][NextSL]_vars

(***************************************************************************)
(* Properties.                                                             *)
(***************************************************************************)
\* s is the word w with each letter in either case.
IsCasingOf(s, w) ==
    /\ Len(s) = Len(w)
    /\ \A i \in 1..Len(w) : s[i] = w[i] \/ s[i] = UpperChar(w[i])

LookupDone(c) == c.pc \in { "returned", "raised", "called" }

IsEulerianName(v) == v.type = "str" /\ IsCasingOf(v.val, EulerianKey.val)

IsSemilagrangianName(v) == v.type = "str" /\ IsCasingOf(v.val, SemilagrangianKey.val)

\* The name matches no entry of the registry.
Unmatched(v) == v # PyNone /\ ~IsEulerianName(v) /\ ~IsSemilagrangianName(v)

ValidOptions == << EulerianKey, SemilagrangianKey, PyNone >>

\* C1: get_method resolves textual names case-insensitively: every casing
\* of "eulerian" yields eulerian_persistence and every casing of
\* "semilagrangian" yields semilagrangian.extrapolate.
C1_CaseInsensitive ==
    \A t \in Callers :
        LookupDone(callers[t]) =>
            /\ IsEulerianName(callers[t].arg) =>
                  callers[t].ret = Returned(eulerian_persistence)
            /\ IsSemilagrangianName(callers[t].arg) =>
                  callers[t].ret = Returned(semilagrangian_extrapolate)

\* A mixed-case name with upper-case letters beyond the first has been resolved.
C1_Witness ==
    \E t \in Callers :
        /\ callers[t].pc = "returned"
        /\ IsSemilagrangianName(callers[t].arg)
        /\ IsUpper(callers[t].arg.val[5]) /\ IsLower(callers[t].arg.val[1])
        /\ callers[t].ret = Returned(semilagrangian_extrapolate)

\* C2 as stated: every name that matches no registered entry fails with the
\* unknown-method error, which carries the requested name and lists the
\* three valid options.
C2_UnknownMethodAsStated ==
    \A t \in Callers :
        LookupDone(callers[t]) /\ Unmatched(callers[t].arg) =>
            /\ callers[t].ret.exc = "ValueError"
            /\ callers[t].ret.val.name = callers[t].arg
            /\ callers[t].ret.val.options = ValidOptions

\* C2 as amended: every hashable name that matches no registered entry fails
\* with ValueError, whose message carries the name lower-cased when it is a
\* string (as it is otherwise) and lists the three keys of the registry; an
\* unhashable name fails with TypeError and returns no callable either.
C2_UnknownMethod ==
    \A t \in Callers :
        LookupDone(callers[t]) /\ Unmatched(callers[t].arg) =>
            IF Hashable(callers[t].arg)
            THEN /\ callers[t].ret.exc = "ValueError"
                 /\ callers[t].ret.val.name.type = callers[t].arg.type
                 /\ Len(callers[t].ret.val.name.val) = Len(callers[t].arg.val)
                 /\ \A i \in 1..Len(callers[t].arg.val) :
                       callers[t].ret.val.name.val[i] =
                           IF callers[t].arg.type = "str"
                           THEN LowerChar(callers[t].arg.val[i])
                           ELSE callers[t].arg.val[i]
                 /\ callers[t].ret.val.options = ValidOptions
            ELSE callers[t].ret.exc = "TypeError"

\* An unknown mixed-case name has been rejected.
C2_Witness ==
    \E t \in Callers :
        /\ callers[t].pc = "raised"
        /\ callers[t].arg = PyStr(<< "N", "o", "w", "c", "a", "s", "t" >>)
        /\ callers[t].ret.exc = "ValueError"
        /\ callers[t].ret.val.name = PyStr(<< "n", "o", "w", "c", "a", "s", "t" >>)

\* C4: every callable get_method returns accepts a call that passes the
\* field, the velocity, the step count and the outside value in that order.
C4_UniformSignature ==
    \A t \in Callers :
        ( /\ callers[t].pc = "called"
          /\ Len(callers[t].args.pos) = 4
          /\ "outval" \notin KwNames(callers[t].args.kw) )
        => callers[t].result.exc # "TypeError"

\* C5: resolving None succeeds and yields a no-op: called with a field, a
\* velocity, a step count and keyword options, it returns None.
C5_NoneIsNoOp ==
    \A t \in Callers :
        /\ LookupDone(callers[t]) /\ callers[t].arg = PyNone =>
              callers[t].ret = Returned(do_nothing)
        /\ ( /\ callers[t].pc = "called"
             /\ callers[t].arg = PyNone
             /\ Len(callers[t].args.pos) = 3 )
           => callers[t].result = Returned(PyNone)

\* The no-op has been called with keyword options and several steps.
C5_Witness ==
    \E t \in Callers :
        /\ callers[t].pc = "called"
        /\ callers[t].arg = PyNone
        /\ Len(callers[t].args.pos) = 3
        /\ callers[t].args.pos[3] = 2
        /\ << "return_displacement", 1 >> \in callers[t].args.kw
        /\ callers[t].result = Returned(PyNone)

\* C9: the registry is read-only after load: whatever lookups and calls
\* have run or are running, it maps the three keys to the three callables
\* it was built with, and a lookup's result depends on its name alone.
C9_RegistryReadOnly ==
    /\ registry = extrapolation_methods
    /\ DictKeys(registry) = ValidOptions
    /\ DictValue(registry, EulerianKey) = eulerian_persistence
    /\ DictValue(registry, SemilagrangianKey) = semilagrangian_extrapolate
    /\ DictValue(registry, PyNone) = do_nothing
    /\ \A t \in Callers :
          LookupDone(callers[t]) =>
              callers[t].ret =
                  LookupOutcome(extrapolation_methods, NormaliseName(callers[t].arg))

\* A failed lookup and a call of a resolved method stand side by side.
C9_Witness ==
    \E t1, t2 \in Callers :
        /\ t1 # t2
        /\ callers[t1].pc = "raised" /\ callers[t1].ret.exc = "ValueError"
        /\ callers[t2].pc = "called"

\* R holds n copies of the field f.
IsCopies(r, f, n) ==
    /\ r.type = "ndarray"
    /\ r.shape = << n >> \o f.shape
    /\ \A i \in 0..(n - 1) : \A j \in 1..Prod(f.shape) :
          r.data[i * Prod(f.shape) + j] = f.data[j]

\* C3: for a field of shape (m, n) and N >= 1 steps, eulerian_persistence
\* returns N fields, each equal to the field; with return_displacement true
\* it returns in addition zero displacements of shape (2, N, m, n), and
\* otherwise the fields alone.
C3_EulerianBaseline ==
    \A k \in 1..Len(calls) :
        (inputs.num_timesteps >= 1 /\ Len(inputs.value.shape) = 2) =>
            /\ calls[k].value.exc = "none"
            /\ IF Truthy(KwGet(inputs.kwargs, "return_displacement", 0))
               THEN /\ calls[k].value.val.type = "tuple"
                    /\ Len(calls[k].value.val.items) = 2
                    /\ IsCopies(calls[k].value.val.items[1], inputs.value, inputs.num_timesteps)
                    /\ calls[k].value.val.items[2].shape =
                          << 2, inputs.num_timesteps >> \o inputs.value.shape
                    /\ \A j \in DOMAIN calls[k].value.val.items[2].data :
                          calls[k].value.val.items[2].data[j] = 0
               ELSE IsCopies(calls[k].value.val, inputs.value, inputs.num_timesteps)

\* Several steps of a transposed 2 x 2 field, with displacements.
C3_Witness ==
    /\ Len(calls) >= 1
    /\ inputs.num_timesteps = 2
    /\ inputs.value.shape = << 2, 2 >>
    /\ inputs.precip.strides = << 1, 2 >>
    /\ << "return_displacement", 1 >> \in inputs.kwargs
    /\ calls[1].value.exc = "none"
    /\ calls[1].value.val.type = "tuple"

\* C8: eulerian_persistence ignores the velocity: calls that differ in the
\* velocity alone have the same outcome, and none fails for its velocity.
C8_VelocityIgnored ==
    /\ \A k1, k2 \in 1..Len(calls) : calls[k1].value = calls[k2].value
    /\ \A k \in 1..Len(calls) :
          (inputs.num_timesteps >= 0 /\ Len(inputs.value.shape) >= 2) =>
              calls[k].value.exc = "none"

\* Two calls, one with no velocity and one with a velocity of another shape.
C8_Witness ==
    /\ Len(calls) >= 2
    /\ calls[1].velocity = PyNone
    /\ calls[2].velocity.type = "ndarray"
    /\ calls[2].velocity.shape # << 2 >> \o inputs.value.shape
    /\ inputs.num_timesteps >= 1
    /\ calls[1].value.exc = "none" /\ calls[2].value.exc = "none"

\* C10: eulerian_persistence never mutates its inputs and returns fresh
\* fields: the input field holds what it held at the start, each returned
\* sequence has a buffer of its own, and after a write to one entry every
\* other cell of every returned sequence still holds the input's value.
C10_InputsNotMutated ==
    /\ ArrayValue(heap, inputs.precip) = inputs.value
    /\ \A k \in 1..Len(calls) :
          calls[k].out.exc = "none" =>
              /\ Extrapolated(calls[k]).buf # inputs.precip.buf
              /\ \A k2 \in 1..Len(calls) :
                    (k2 # k /\ calls[k2].out.exc = "none") =>
                        Extrapolated(calls[k2]).buf # Extrapolated(calls[k]).buf
              /\ \A i \in 0..(Extrapolated(calls[k]).shape[1] - 1) :
                    \A idx \in Indices(Tail(Extrapolated(calls[k]).shape)) :
                        Elem(heap, Entry(Extrapolated(calls[k]), i), idx) =
                            IF write # NoWrite /\ write.call = k /\ write.entry = i
                               /\ write.idx = idx
                            THEN write.x
                            ELSE inputs.value.data[Dot(idx, CStrides(inputs.value.shape)) + 1]

\* An entry of the first of two returned sequences has been written to.
C10_Witness ==
    /\ write # NoWrite
    /\ write.call = 1
    /\ Len(calls) = 2
    /\ calls[2].out.exc = "none"
    /\ inputs.num_timesteps = 2
    /\ inputs.value.shape = << 2, 2 >>

SLActive == sl.pc \in { "substep", "resample", "returned" }

IsZeroVelocity(v) == v.type = "ndarray" /\ \A j \in DOMAIN v.data : v.data[j] = 0

VelocityX(v) == v.data[1]

VelocityY(v) == v.data[Prod(v.shape) \div 2 + 1]

IsUniformVelocity(v) ==
    /\ v.type = "ndarray"
    /\ \A j \in DOMAIN v.data :
          v.data[j] = IF j <= Prod(v.shape) \div 2 THEN VelocityX(v) ELSE VelocityY(v)

\* Where the trajectory of cell j stands after t steps of a uniform velocity.
UniformSource(f, v, j, t) ==
    << CellCoordinate(f, j)[1] - t * VelocityY(v), CellCoordinate(f, j)[2] - t * VelocityX(v) >>

AllOutsideAfterFirstStep(f, v) ==
    \A j \in 1..Prod(f.shape) : OutsideGrid(f, UniformSource(f, v, j, 1))

\* C7: when a uniform velocity puts every cell's backward trajectory
\* outside the grid after step 1, every cell of every output field is
\* outval if extrapolation outside the grid is allowed, and otherwise the
\* input field's value at the source coordinate clamped to the grid.
C7_OutOfDomainFill ==
    ( /\ SLActive
      /\ IsUniformVelocity(sl.velocity)
      /\ AllOutsideAfterFirstStep(sl.precip, sl.velocity) )
    => \A t \in 1..Len(sl.out) : \A j \in 1..Prod(sl.precip.shape) :
          sl.out[t][j] =
              IF Truthy(sl.opts.allow) THEN sl.outval
              ELSE Interpolate(sl.precip,
                       ClampToGrid(sl.precip, UniformSource(sl.precip, sl.velocity, j, t)),
                       sl.opts.order)

\* Two steps out of a 2 x 2 grid, with clamping.
C7_Witness ==
    /\ sl.pc = "returned"
    /\ IsUniformVelocity(sl.velocity)
    /\ AllOutsideAfterFirstStep(sl.precip, sl.velocity)
    /\ sl.precip.shape = << 2, 2 >>
    /\ ~Truthy(sl.opts.allow)
    /\ sl.opts.sub_steps = 2
    /\ VelocityY(sl.velocity) = Half
    /\ Len(sl.out) = 2

====
